---- MODULE Spec2Model ----
(***************************************************************************)
(* Model of backend/native/hdf5/src/hdf5_reader.cpp: the class HDF5Reader  *)
(* (one std::unique_ptr<File> handle), the process-wide instance g_reader  *)
(* and the seven N-API wrapper functions that are the only callers.        *)
(*                                                                         *)
(* The HDF5 library and the files on disk are the environment.  A file is  *)
(* described by a fixture (FileContent); a library step that can fail for  *)
(* reasons outside the program (I/O error, permission, bad type) fails     *)
(* when the action's `fail` input names it.                                *)
(*                                                                         *)
(* size_t is 64 bits wide and Uint32Value 32 bits wide in the build; both  *)
(* widths are scaled down here (SizeBits = 2 * U32Bits) so that the        *)
(* wrap-around of `dims[0] - startIdx` is computed with the same shape:    *)
(* every value the wrapper can pass is far below the wrapped difference.   *)
(***************************************************************************)
EXTENDS Integers, Sequences, FiniteSets, TLC

VARIABLES
    file,           \* HDF5Reader::file : NULL or the File resource it owns
    openResources,  \* File resources the library currently holds open
    relCount,       \* per resource id: how many times it was released
    nextId,         \* id the next successfully constructed File gets
    status,         \* "running", or "crashed" once the process has died
    lastCall,       \* the last wrapper call: op, converted args, what the
                    \* environment made fail, the handle on entry
    result          \* what the last wrapper call returned to the host

vars == <<file, openResources, relCount, nextId, status, lastCall, result>>

----------------------------------------------------------------------------
(* Bounds *)

MaxOpens == 2       \* File objects constructed successfully in one run
U32Bits  == 3       \* scaled width of Napi Uint32Value
DataLen  == 3       \* first dimension of the fixture datasets
MaxArg   == 4       \* largest small number the host passes

SizeBits == 2 * U32Bits
U32Mod   == 2 ^ U32Bits
SizeMod  == 2 ^ SizeBits

NULL   == [path |-> "", id |-> 0]   \* the empty unique_ptr

----------------------------------------------------------------------------
(* Small helpers *)

Min(a, b) == IF a <= b THEN a ELSE b
Max(a, b) == IF a >= b THEN a ELSE b

\* std::vector::resize on a fresh vector<uint16_t>: value-initialised
Zeros(n) == [i \in 1..n |-> 0]

\* size_t subtraction
USub(a, b) == (a - b + SizeMod) % SizeMod

\* Napi::Number::Uint32Value, then widened to size_t
Uint32Value(n) == n % U32Mod

----------------------------------------------------------------------------
(* The files on disk *)

AttrNames == <<"name", "physicalUnit", "ChannelName">>
AllowList == {"name", "physicalUnit", "ChannelName",
              "binToVoltConstant", "binToVoltFactor"}

Sample(i) == 100 + i              \* uint16 sample at position i (0-based)
Cell(r, c) == 200 + 10 * r + c    \* uint16 at row r, column c (0-based)

Raw      == <<"r", "a", "w">>
DataMM   == <<"d", "a", "t", "a", "_", "m">>
Data0    == <<"d", "a", "t", "a", "0">>
Cube     == <<"c", "u", "b", "e">>
Missing  == <<"n", "o">>

Rank1DS == [dims |-> <<DataLen>>,
            cells |-> [i \in 1..DataLen |-> Sample(i - 1)]]
Rank2DS == [dims |-> <<DataLen, 2>>,
            cells |-> [i \in 1..DataLen |-> <<Cell(i - 1, 0), Cell(i - 1, 1)>>]]
Rank2Empty == [dims |-> <<DataLen - 1, 0>>,
               cells |-> [i \in 1..(DataLen - 1) |-> <<>>]]
Rank3DS == [dims |-> <<1, 1, 1>>, cells |-> <<>>]

\* attribute: absent, or a string, or a double given in millionths
Absent == [kind |-> "absent"]
Str(s) == [kind |-> "string", val |-> s]
Dbl(m) == [kind |-> "double", val |-> m]

CH1 == [attrs |-> [a \in AllowList |->
                     CASE a = "name" -> Str("Voltage")
                       [] a = "physicalUnit" -> Str("V")
                       [] a = "ChannelName" -> Absent
                       [] a = "binToVoltConstant" -> Dbl(2500000)
                       [] a = "binToVoltFactor" -> Dbl(305)],
        order |-> <<Cube, Data0, DataMM, Raw>>,
        datasets |-> [n \in {Cube, Data0, DataMM, Raw} |->
                     CASE n = Cube -> Rank3DS
                       [] n = Data0 -> Rank2Empty
                       [] n = DataMM -> Rank2DS
                       [] n = Raw -> Rank1DS]]

CH2 == [attrs |-> [a \in AllowList |->
                     CASE a = "name" -> Absent
                       [] a = "physicalUnit" -> Str("A")
                       [] a = "ChannelName" -> Str("Current")
                       [] a = "binToVoltConstant" -> Absent
                       [] a = "binToVoltFactor" -> Dbl(1000000)],
        order |-> <<>>,
        datasets |-> [n \in {} |-> Rank3DS]]

Paths == {"a.h5", "b.h5", "missing.h5"}
Exists(p) == p \in {"a.h5", "b.h5"}

\* a.h5 follows the layout; b.h5 is a valid container without it
FileContent(p) ==
    IF p = "a.h5"
    THEN [hasChannels |-> TRUE, order |-> <<"CH1", "CH2">>,
          channels |-> [c \in {"CH1", "CH2"} |-> IF c = "CH1" THEN CH1 ELSE CH2]]
    ELSE [hasChannels |-> FALSE, order |-> <<>>,
          channels |-> [c \in {} |-> CH2]]

----------------------------------------------------------------------------
(* Outcomes of a method call: it returns a value, or the process dies *)

Ret(v)  == [st |-> "ok", val |-> v]
Crash   == [st |-> "crash", val |-> <<>>]

\* file->... with file == nullptr: a member call through a null
\* unique_ptr is undefined.  The builds read File::_hid through the null
\* `this` and die with SIGSEGV; a build in which the library is handed an
\* invalid id instead throws, and the method's catch returns `empty`.
NullDeref(empty) == {Crash, Ret(empty)}

\* std::string::find(prefix) == 0
StartsWith(name, prefix) ==
    /\ Len(name) >= Len(prefix)
    /\ SubSeq(name, 1, Len(prefix)) = prefix

\* std::to_string(double) prints "%f": integer part, six decimals
to_string(m) == [int |-> m \div 1000000, frac |-> m % 1000000]

\* static_cast<double>(size_t): exact for every dimension below 2^53
ToDouble(n) == n

HasGroup(f, ch) ==
    /\ FileContent(f.path).hasChannels
    /\ ch \in DOMAIN FileContent(f.path).channels

Group(f, ch) == FileContent(f.path).channels[ch]

HasDataSet(f, ch, ds) ==
    /\ HasGroup(f, ch)
    /\ ds \in DOMAIN Group(f, ch).datasets

DataSet(f, ch, ds) == Group(f, ch).datasets[ds]

----------------------------------------------------------------------------
(* HDF5Reader *)

\* a handle assignment that forgets the File it replaces
AssignHandleLeak(open, old, new) == open \cup {new}

\* file = std::make_unique<File>(...): the old File is destroyed by the
\* move assignment, after the new one was constructed
AssignHandle(open, old, new) == (open \cup {new}) \ {old}

Released(rel, old) ==
    IF old = NULL THEN rel
    ELSE [rel EXCEPT ![old.id] = Min(@ + 1, 2)]

\* a failed open that resets the handle before constructing the File
HandleResetOnFailedOpen(old) == NULL

\* the handle after a failed make_unique: the assignment never happens
HandleAfterFailedOpen(old) == old

getChannelIds(f, fail) ==
    IF f = NULL THEN NullDeref(<<>>)
    ELSE IF fail = "lookup" \/ ~FileContent(f.path).hasChannels
         THEN {Ret(<<>>)}
         ELSE {Ret(FileContent(f.path).order)}

\* one try block around the whole loop: the first failing read ends it
RECURSIVE StringAttrsAbort(_, _, _, _)
StringAttrsAbort(group, failing, i, attributes) ==
    IF i > Len(AttrNames) THEN attributes
    ELSE LET a == AttrNames[i]
         IN  IF group.attrs[a].kind # "absent" /\ a \in failing
             THEN attributes
             ELSE StringAttrsAbort(group, failing, i + 1,
                    IF group.attrs[a].kind # "absent"
                    THEN attributes @@ (a :> group.attrs[a].val)
                    ELSE attributes)

RECURSIVE StringAttrs(_, _, _, _)
StringAttrs(group, failing, i, attributes) ==
    IF i > Len(AttrNames) THEN attributes
    ELSE LET a == AttrNames[i]
             next == IF group.attrs[a].kind # "absent" /\ a \notin failing
                     THEN attributes @@ (a :> group.attrs[a].val)
                     ELSE attributes
         IN  StringAttrs(group, failing, i + 1, next)

NumericAttr(group, failing, a, attributes) ==
    IF group.attrs[a].kind # "absent" /\ a \notin failing
    THEN attributes @@ (a :> to_string(group.attrs[a].val))
    ELSE attributes

getChannelAttributes(f, channelId, fail, failing) ==
    IF f = NULL THEN NullDeref(<<>>)
    ELSE IF fail = "lookup" \/ ~HasGroup(f, channelId)
         THEN {Ret(<<>>)}
         ELSE LET g == Group(f, channelId)
                  a1 == StringAttrs(g, failing, 1, <<>>)
                  a2 == NumericAttr(g, failing, "binToVoltConstant", a1)
                  a3 == NumericAttr(g, failing, "binToVoltFactor", a2)
              IN  {Ret(a3)}

IsListed(name) == StartsWith(name, <<"d", "a", "t", "a">>) \/ name = Raw

getAvailableDatasets(f, channelId, fail) ==
    IF f = NULL THEN NullDeref(<<>>)
    ELSE IF fail = "lookup" \/ ~HasGroup(f, channelId)
         THEN {Ret(<<>>)}
         ELSE {Ret(SelectSeq(Group(f, channelId).order, IsListed))}

getDatasetShape(f, channelId, datasetName, fail) ==
    IF f = NULL THEN NullDeref(<<>>)
    ELSE IF fail \in {"lookup", "dims"} \/ ~HasDataSet(f, channelId, datasetName)
         THEN {Ret(<<>>)}
         ELSE LET dims == DataSet(f, channelId, datasetName).dims
              IN  {Ret([i \in 1..Len(dims) |-> ToDouble(dims[i])])}

\* a chunk read that does not clamp the requested count
ActualCountNoClamp(count, dims0, startIdx) == count

\* size_t actualCount = std::min(count, dims[0] - startIdx);
ActualCount(count, dims0, startIdx) == Min(count, USub(dims0, startIdx))

\* the hyperslab [startIdx, startIdx + n) lies in a first dimension of dims0
InExtent(dims0, startIdx, n) == n = 0 \/ startIdx + n <= dims0

\* row[0] of a row of dims[1] == 0 elements reads outside the vector:
\* the process dies, or each push_back stores whatever was read
GarbageValues == {0, 65535}

readDatasetChunk(f, channelId, datasetName, startIdx, count, fail) ==
    IF f = NULL THEN NullDeref(<<>>)
    ELSE IF fail \in {"lookup", "dims"} \/ ~HasDataSet(f, channelId, datasetName)
    THEN {Ret(<<>>)}
    ELSE
      LET dataset == DataSet(f, channelId, datasetName)
          dims == dataset.dims
          actualCount == ActualCount(count, dims[1], startIdx)
          readFails == \/ fail \in {"select", "read"}
                       \/ ~InExtent(dims[1], startIdx, actualCount)
      IN
      IF Len(dims) = 1 THEN
          IF fail = "alloc" THEN {Ret(<<>>)}
          ELSE IF readFails THEN {Ret(Zeros(actualCount))}
          ELSE {Ret([i \in 1..actualCount |-> dataset.cells[startIdx + i]])}
      ELSE IF Len(dims) = 2 THEN
          IF fail = "alloc" \/ readFails THEN {Ret(<<>>)}
          ELSE IF actualCount > 0 /\ dims[2] = 0
               THEN {Crash} \cup
                    {Ret(g) : g \in [1..actualCount -> GarbageValues]}
               ELSE {Ret([i \in 1..actualCount |->
                            dataset.cells[startIdx + i][1]])}
      ELSE {Ret(<<>>)}

\* a close that releases the File and keeps the pointer
HandleKeptAfterClose(old) == old

\* file.reset() under `if (file)`
HandleAfterClose(old) == NULL

closeFile(f, open, rel) ==
    IF f # NULL
    THEN [file |-> HandleAfterClose(f), open |-> open \ {f},
          rel |-> Released(rel, f)]
    ELSE [file |-> f, open |-> open, rel |-> rel]

----------------------------------------------------------------------------
(* What the host sees *)

Value(v)  == [kind |-> "value", val |-> v]
TypeError == [kind |-> "typeError", val |-> <<>>]   \* thrown; env.Null()
NoResult  == [kind |-> "none", val |-> <<>>]        \* the process died

Call(op, args, fail) ==
    [op |-> op, args |-> args, fail |-> fail, failing |-> {}, before |-> file]

\* a method returned (or the process died inside it); the handle is not
\* touched by any of the five query methods
Finish(o) ==
    /\ status' = IF o.st = "crash" THEN "crashed" ELSE "running"
    /\ result' = IF o.st = "crash" THEN NoResult ELSE Value(o.val)
    /\ UNCHANGED <<file, openResources, relCount, nextId>>

Rejected(op) ==
    /\ lastCall' = Call(op, <<>>, "none")
    /\ result' = TypeError
    /\ UNCHANGED <<file, openResources, relCount, nextId, status>>

Fails     == {"none", "lookup", "dims", "select", "read", "alloc"}
Channels  == {"CH1", "CH2", "CH9"}
\* the (channelId, datasetName) pairs chunk reads are tried on, and the
\* library steps that are made to fail on each
ReadTargets == {<<"CH1", Raw>>, <<"CH1", DataMM>>, <<"CH1", Data0>>,
                <<"CH1", Cube>>, <<"CH1", Missing>>, <<"CH9", Raw>>}
ReadFails(t) == IF t \in {<<"CH1", Raw>>, <<"CH1", DataMM>>}
                THEN Fails ELSE {"none"}
Numbers   == (0..MaxArg) \cup {U32Mod + 1}

Init ==
    /\ file = NULL
    /\ openResources = {}
    /\ relCount = [i \in 1..MaxOpens |-> 0]
    /\ nextId = 1
    /\ status = "running"
    /\ lastCall = [op |-> "Init", args |-> <<>>, fail |-> "none",
                   failing |-> {}, before |-> NULL]
    /\ result = NoResult

OpenFileOk(filepath) ==
    LET new == [path |-> filepath, id |-> nextId]
    IN  /\ Exists(filepath)
        /\ nextId <= MaxOpens
        /\ lastCall' = Call("openFile", <<filepath>>, "none")
        /\ file' = new
        /\ openResources' = AssignHandle(openResources, file, new)
        /\ relCount' = Released(relCount, file)
        /\ nextId' = nextId + 1
        /\ result' = Value(TRUE)
        /\ UNCHANGED status

OpenFileFails(filepath, fail) ==
    /\ fail = "open" \/ ~Exists(filepath)
    /\ lastCall' = Call("openFile", <<filepath>>, fail)
    /\ file' = HandleAfterFailedOpen(file)
    /\ result' = Value(FALSE)
    /\ UNCHANGED <<openResources, relCount, nextId, status>>

OpenFile ==
    /\ status = "running"
    /\ \/ Rejected("openFile")
       \/ \E filepath \in Paths : OpenFileOk(filepath)
       \/ \E filepath \in Paths, fail \in {"none", "open"} :
             OpenFileFails(filepath, fail)

GetChannelIds ==
    /\ status = "running"
    /\ \E fail \in {"none", "lookup"} :
         /\ lastCall' = Call("getChannelIds", <<>>, IF file = NULL THEN "none" ELSE fail)
         /\ \E o \in getChannelIds(file, fail) : Finish(o)

GetChannelAttributes ==
    /\ status = "running"
    /\ \/ Rejected("getChannelAttributes")
       \/ \E channelId \in Channels, fail \in {"none", "lookup"},
             failing \in SUBSET AllowList :
            /\ fail = "lookup" => failing = {}
            /\ file = NULL => fail = "none" /\ failing = {}
            /\ lastCall' = [Call("getChannelAttributes", <<channelId>>, fail)
                              EXCEPT !.failing = failing]
            /\ \E o \in getChannelAttributes(file, channelId, fail, failing) :
                  Finish(o)

GetAvailableDatasets ==
    /\ status = "running"
    /\ \/ Rejected("getAvailableDatasets")
       \/ \E channelId \in Channels, fail \in {"none", "lookup"} :
            /\ file = NULL => fail = "none"
            /\ lastCall' = Call("getAvailableDatasets", <<channelId>>, fail)
            /\ \E o \in getAvailableDatasets(file, channelId, fail) : Finish(o)

GetDatasetShape ==
    /\ status = "running"
    /\ \/ Rejected("getDatasetShape")
       \/ \E t \in ReadTargets, fail \in {"none", "lookup", "dims"} :
           LET channelId == t[1]
               datasetName == t[2]
           IN
            /\ file = NULL => fail = "none"
            /\ lastCall' = Call("getDatasetShape", <<channelId, datasetName>>, fail)
            /\ \E o \in getDatasetShape(file, channelId, datasetName, fail) :
                  Finish(o)

ReadDatasetChunk ==
    /\ status = "running"
    /\ \/ Rejected("readDatasetChunk")
       \/ \E t \in ReadTargets, n2 \in Numbers, n3 \in Numbers :
           \E fail \in ReadFails(t) :
            LET channelId == t[1]
                datasetName == t[2]
                startIdx == Uint32Value(n2)
                count == Uint32Value(n3)
            IN  /\ file = NULL => fail = "none"
                /\ lastCall' = Call("readDatasetChunk",
                       <<channelId, datasetName, startIdx, count>>, fail)
                /\ \E o \in readDatasetChunk(file, channelId, datasetName,
                                              startIdx, count, fail) : Finish(o)

CloseFile ==
    /\ status = "running"
    /\ LET c == closeFile(file, openResources, relCount)
       IN  /\ lastCall' = Call("closeFile", <<>>, "none")
           /\ file' = c.file
           /\ openResources' = c.open
           /\ relCount' = c.rel
           /\ result' = Value(<<>>)
           /\ UNCHANGED <<nextId, status>>

Next ==
    \/ OpenFile
    \/ GetChannelIds
    \/ GetChannelAttributes
    \/ GetAvailableDatasets
    \/ GetDatasetShape
    \/ ReadDatasetChunk
    \/ CloseFile

Spec == Init /\ [][Next]_vars

----------------------------------------------------------------------------
(* Properties *)

QueryOps == {"getChannelIds", "getChannelAttributes", "getAvailableDatasets",
             "getDatasetShape", "readDatasetChunk"}

Returned == result.kind = "value"
Reached  == result.kind # "typeError"   \* the call got past the boundary

\* the dataset the last chunk read named, when the handle was open and
\* the dataset exists
ReadOn(rank) ==
    /\ lastCall.op = "readDatasetChunk"
    /\ Reached
    /\ lastCall.before # NULL
    /\ HasDataSet(lastCall.before, lastCall.args[1], lastCall.args[2])
    /\ Len(DataSet(lastCall.before, lastCall.args[1], lastCall.args[2]).dims) = rank

ReadDS    == DataSet(lastCall.before, lastCall.args[1], lastCall.args[2])
ReadStart == lastCall.args[3]
ReadCount == lastCall.args[4]

\* C1: an openFile whose underlying open fails returns false and leaves
\* the handle unset, whatever the state before the call.
C1_FailedOpenLeavesHandleUnset ==
    (lastCall.op = "openFile" /\ Returned /\ result.val = FALSE)
        => file = NULL

\* C2: with the handle absent, each of the five queries completes and
\* returns its empty result, and closeFile changes nothing; no call in the
\* closed state crashes.
C2_ClosedCallsReturnEmpty ==
    (/\ lastCall.op \in QueryOps \cup {"closeFile"}
     /\ Reached
     /\ lastCall.before = NULL)
        => /\ status = "running"
           /\ result = Value(<<>>)
           /\ file = NULL
           /\ openResources = {}

\* some step of the last chunk read (on an open handle) failed
ReadStepFailed ==
    /\ lastCall.op = "readDatasetChunk"
    /\ Reached
    /\ lastCall.before # NULL
    /\ \/ ~HasDataSet(lastCall.before, lastCall.args[1], lastCall.args[2])
       \/ lastCall.fail \in {"lookup", "dims", "select", "read"}
       \/ /\ Len(ReadDS.dims) \in {1, 2}
          /\ ~InExtent(ReadDS.dims[1], ReadStart,
                       Min(ReadCount, USub(ReadDS.dims[1], ReadStart)))

\* C3: if any step of readDatasetChunk fails (lookup, dimension query,
\* hyperslab selection, read), the call returns an empty sequence and does
\* not raise.
C3_FailedReadReturnsEmpty ==
    ReadStepFailed => (status = "running" /\ result = Value(<<>>))

\* C4: on an open handle and a rank-1 dataset of length n, for startIdx <= n
\* a successful readDatasetChunk returns exactly min(count, n - startIdx)
\* values, the samples at startIdx, startIdx + 1, ... in order.
C4_Rank1Chunk ==
    (ReadOn(1) /\ lastCall.fail = "none" /\ ReadStart <= ReadDS.dims[1])
        => /\ status = "running"
           /\ Returned
           /\ Len(result.val) = Min(ReadCount, ReadDS.dims[1] - ReadStart)
           /\ \A i \in 1..Len(result.val) :
                 result.val[i] = ReadDS.cells[ReadStart + i]

\* a rank-1 read from inside the dataset that asked for more than is left
C4_Witness ==
    /\ ReadOn(1) /\ lastCall.fail = "none" /\ Returned
    /\ ReadStart > 0
    /\ ReadStart < ReadDS.dims[1]
    /\ ReadCount > ReadDS.dims[1] - ReadStart
    /\ Len(result.val) = ReadDS.dims[1] - ReadStart

\* C5: on an open handle and a rank-2 dataset of any shape (n, m), for
\* startIdx <= n, readDatasetChunk (no library step failing) returns exactly
\* min(count, n - startIdx) values, the i-th being column 0 of row
\* startIdx + i.
C5_Rank2Chunk ==
    (ReadOn(2) /\ lastCall.fail = "none" /\ ReadStart <= ReadDS.dims[1])
        => /\ status = "running"
           /\ Returned
           /\ Len(result.val) = Min(ReadCount, ReadDS.dims[1] - ReadStart)
           /\ \A i \in 1..Len(result.val) :
                 /\ ReadDS.dims[2] >= 1
                 /\ result.val[i] = ReadDS.cells[ReadStart + i][1]

\* C6: for every dataset of rank 1 or 2 and every startIdx and count,
\* startIdx > dims[0] included, the returned sequence is no longer than
\* count and no longer than the remaining length max(0, dims[0] - startIdx).
C6_ClampedToRemaining ==
    ((ReadOn(1) \/ ReadOn(2)) /\ Returned)
        => /\ Len(result.val) <= ReadCount
           /\ Len(result.val) <= Max(0, ReadDS.dims[1] - ReadStart)

\* C7: after any sequence of calls at most one container resource is open,
\* it is the one the handle owns, and after a successful openFile the old
\* resource is released and the handle refers to the newly opened file.
C7_AtMostOneResource ==
    /\ Cardinality(openResources) <= 1
    /\ openResources = (IF file = NULL THEN {} ELSE {file})
    /\ (lastCall.op = "openFile" /\ Returned /\ result.val = TRUE)
          => /\ file.path = lastCall.args[1]
             /\ file # lastCall.before
             /\ lastCall.before \notin openResources
             /\ lastCall.before # NULL => relCount[lastCall.before.id] = 1

\* a successful openFile issued while another file was open
C7_Witness ==
    /\ lastCall.op = "openFile" /\ Returned /\ result.val = TRUE
    /\ lastCall.before # NULL
    /\ lastCall.before.path # file.path

\* C8: closeFile completes in any state, leaves the handle absent, never
\* releases a resource twice, and a closeFile right after a closeFile
\* changes nothing.
C8_CloseIdempotent ==
    [][lastCall'.op = "closeFile"
         => /\ status' = "running"
            /\ file' = NULL
            /\ openResources' = {}
            /\ \A i \in DOMAIN relCount' : relCount'[i] <= 1
            /\ lastCall.op = "closeFile"
                 => UNCHANGED <<file, openResources, relCount, nextId, status>>
      ]_vars

\* closeFile on an already closed accessor that had released a file before
C8_Witness ==
    /\ lastCall.op = "closeFile"
    /\ lastCall.before = NULL
    /\ \E i \in DOMAIN relCount : relCount[i] = 1
    /\ file = NULL

\* the allow-list names present on the group the last attribute call named
PresentAttrs ==
    {a \in AllowList :
       Group(lastCall.before, lastCall.args[1]).attrs[a].kind # "absent"}

AttrCallOnGroup ==
    /\ lastCall.op = "getChannelAttributes"
    /\ Returned
    /\ lastCall.before # NULL
    /\ HasGroup(lastCall.before, lastCall.args[1])
    /\ lastCall.fail = "none"

\* C9: on an open handle and an existing channel group the keys returned by
\* getChannelAttributes are exactly the allow-list names that are present
\* and whose read succeeds; a failing read omits that key only.
C9_AttributeKeys ==
    AttrCallOnGroup
        => DOMAIN result.val = PresentAttrs \ lastCall.failing

\* a read failed on a present attribute and other keys were still returned,
\* one of them read after the failing one
C9_Witness ==
    /\ AttrCallOnGroup
    /\ "name" \in PresentAttrs \cap lastCall.failing
    /\ "physicalUnit" \in DOMAIN result.val
    /\ "binToVoltFactor" \in DOMAIN result.val

\* C10: the handle changes only in a successful openFile (to the file just
\* opened) or in a closeFile (to absent); queries, failed opens and calls
\* rejected at the boundary leave it as it was.
C10_HandleFrame ==
    [][IF lastCall'.op = "closeFile" THEN file' = NULL
       ELSE IF lastCall'.op = "openFile" /\ result'.kind = "value"
                 /\ result'.val = TRUE
            THEN file'.path = lastCall'.args[1] /\ file' # NULL
            ELSE file' = file
      ]_vars

\* a call that did not open or close anything ran on an open handle
C10_Witness ==
    /\ file # NULL
    /\ file = lastCall.before
    /\ \/ lastCall.op = "openFile" /\ Returned /\ result.val = FALSE
       \/ lastCall.op \in QueryOps

====
